---- MODULE Spec2Model ----
(***************************************************************************)
(* LoginFacade of the worker (src/src/gui/base/NavBar.js, lines 161-597):  *)
(* session creation, resumption, logout and the push-update handler, as a  *)
(* state machine.  Every promise chain of the facade is a "flow": its pc   *)
(* names the request it is waiting for, and one action is the whole        *)
(* callback chain that runs when that request is answered (the callbacks   *)
(* chained on an already settled promise run in the same queue drain, with *)
(* no network answer in between).                                          *)
(*                                                                         *)
(* Not modelled: the hot-reload transplant (lines 207, 352, 590-597), the  *)
(* NavBar widget and the generated NewDraftAttachment type model.          *)
(***************************************************************************)
EXTENDS Naturals, Sequences, FiniteSets

\* ------------------------------------------------------------------ bounds

\* Number of calls of the caller that may be in flight at the same time.
MaxCalls == 2

\* Number of push updates the event bus delivers in one run.
MaxPushes == 1

\* Number of calls a caller that does not wait for its calls to settle makes
\* in one run.
MaxStarts == 2

\* Every promise chain has a slot: one per call in flight, and one for the
\* handler of each push update.
Calls == 1..MaxCalls

Handlers == (MaxCalls + 1)..(MaxCalls + MaxPushes)

Flows == Calls \cup Handlers

\* ------------------------------------------------- server-side test data

\* null / undefined.  Every value that may be null is a record, so that it
\* can be compared with NULL.
NULL == [null |-> TRUE]

\* u1 is a registered (internal) account, u2 an external recipient account.
UserIds == {"u1", "u2"}

\* the mail address of an account; an external account has none and its
\* credentials carry the user id instead (line 311)
MailAddressOf(u) == IF u = "u1" THEN "a@b.c" ELSE u

MailAddresses == {"a@b.c"}

UserOfMail(mail) == CHOOSE u \in UserIds : MailAddressOf(u) = mail

AccountTypeOf(u) == IF u = "u2" THEN "EXTERNAL" ELSE "FREE"

Passphrases == {[passphrase |-> "p"], [passphrase |-> "x"]}

\* Both accounts use passphrase "p"; "x" is a wrong passphrase.
PasswordOf(u) == [passphrase |-> "p"]

SaltOf(u) == [salt |-> u]

WrongSalt == [salt |-> "other"]

UserGroupOf(u) == [group |-> "user", of |-> u]

MailGroupOf(u) == [group |-> "mail", of |-> u]

GroupIds == {UserGroupOf(u) : u \in UserIds} \cup {MailGroupOf(u) : u \in UserIds}

GroupKeyOf(g) == [groupKey |-> g]

GroupInfoIdOf(u) == [listId |-> "groupInfos", elementId |-> u]

\* Two server-side revisions of each record; the second revision of a User
\* has lost its mail-group membership.
Versions == {"v1", "v2"}

\* ------------------------------------------------------------------ crypto

\* a thrown exception, as the value of the expression that throws
Thrown(e) == [thrown |-> e]

IsThrown(x) == "thrown" \in DOMAIN x

\* generateKeyFromPassphrase(passphrase, salt, KeyLength.b128)
generateKeyFromPassphrase(passphrase, salt) == [pw |-> passphrase, salt |-> salt]

\* createAuthVerifierAsBase64Url(key): one-way, deterministic
createAuthVerifierAsBase64Url(key) == [enc |-> "base64url", verifierOf |-> key]

\* hash(bytes): Sha256, deterministic and taken to be collision free
hash(bytes) == [sha256 |-> bytes]

\* encryptKey / encryptString / encryptBytes: a ciphertext names its key
encrypt(key, plain) == [encKey |-> key, plain |-> plain]

\* decryptKey / aes128Decrypt: the plaintext, or a CryptoError with another key
decrypt(key, cipher) ==
    IF cipher.encKey = key THEN cipher.plain ELSE Thrown("CryptoError")

\* ------------------------------------------------------------ access tokens

\* GENERATED_ID_BYTES_LENGTH (imported from EntityFunctions)
GENERATED_ID_BYTES_LENGTH == 9

Bytes(n, b) == [i \in 1..n |-> b]

\* An access token is a base64url string: whether it decodes at all, and the
\* bytes it decodes to.
tokA == [b64 |-> TRUE, bytes |-> Bytes(GENERATED_ID_BYTES_LENGTH, 1) \o <<7, 7>>]

tokB == [b64 |-> TRUE, bytes |-> Bytes(GENERATED_ID_BYTES_LENGTH, 2) \o <<8, 8>>]

\* decodes to fewer than GENERATED_ID_BYTES_LENGTH bytes
tokShort == [b64 |-> TRUE, bytes |-> <<3, 3>>]

\* not base64url
tokBad == [b64 |-> FALSE, bytes |-> <<>>]

\* the tokens the server issues, and the account each is issued to
ServerTokens == {tokA, tokB}

TokenUser(t) == IF t = tokA THEN "u1" ELSE "u2"

TokenOf(u) == IF u = "u1" THEN tokA ELSE tokB

AccessKeyOf(t) == [accessKey |-> t.bytes]

WrongAccessKey == [accessKey |-> <<>>]

\* Array.prototype.slice(from, to): clamps to the array's length
slice(bytes, from, to) ==
    LET hi == IF to < Len(bytes) THEN to ELSE Len(bytes)
    IN  IF from >= hi THEN <<>> ELSE SubSeq(bytes, from + 1, hi)

\* base64ToUint8Array(base64UrlToBase64(neverNull(accessToken))): neverNull
\* only casts, so a null token fails in String.replace; a string that is not
\* base64 fails in the decoder
base64ToUint8Array(accessToken) ==
    IF accessToken = NULL THEN Thrown("TypeError")
    ELSE IF ~accessToken.b64 THEN Thrown("Error")
    ELSE [bytes |-> accessToken.bytes]

_getSessionElementId(accessToken) ==
    LET byteAccessToken == base64ToUint8Array(accessToken)
    IN  IF IsThrown(byteAccessToken) THEN byteAccessToken
        ELSE [enc |-> "base64url",
              of |-> hash(slice(byteAccessToken.bytes, GENERATED_ID_BYTES_LENGTH,
                                Len(byteAccessToken.bytes)))]

_getSessionListId(accessToken) ==
    LET byteAccessToken == base64ToUint8Array(accessToken)
    IN  IF IsThrown(byteAccessToken) THEN byteAccessToken
        ELSE [enc |-> "base64ext",
              of |-> [bytes |-> slice(byteAccessToken.bytes, 0,
                                      GENERATED_ID_BYTES_LENGTH)]]

\* typeRefToPath(SessionTypeRef) + '/' + listId + '/' + elementId
SessionPath(accessToken) ==
    LET listId == _getSessionListId(accessToken)
        elementId == _getSessionElementId(accessToken)
    IN  IF IsThrown(listId) THEN listId
        ELSE IF IsThrown(elementId) THEN elementId
        ELSE [path |-> "session", listId |-> listId, elementId |-> elementId]

\* ------------------------------------------------------------ entities

User(u, v) ==
    [id |-> u,
     salt |-> SaltOf(u),
     accountType |-> AccountTypeOf(u),
     rev |-> v,
     userGroup |->
        [group |-> UserGroupOf(u),
         symEncGKey |-> encrypt(generateKeyFromPassphrase(PasswordOf(u), SaltOf(u)),
                                GroupKeyOf(UserGroupOf(u))),
         groupInfo |-> GroupInfoIdOf(u)],
     memberships |->
        IF v = "v1"
        THEN {[group |-> MailGroupOf(u), groupType |-> "Mail",
               symEncGKey |-> encrypt(GroupKeyOf(UserGroupOf(u)),
                                      GroupKeyOf(MailGroupOf(u)))]}
        ELSE {}]

GroupInfo(id, v) == [id |-> id, rev |-> v]

\* the session record the server stores for an issued token
Session(t) == [user |-> TokenUser(t), accessKey |-> AccessKeyOf(t)]

\* the credentials a client may have stored: what a session creation returned
\* for an issued token, the same with a password blob its access key cannot
\* decrypt, and damaged tokens
Credentials ==
    {[mailAddress |-> MailAddressOf(TokenUser(t)),
      accessToken |-> t,
      encryptedPassword |-> encrypt(AccessKeyOf(t), PasswordOf(TokenUser(t)))]
        : t \in ServerTokens}
    \cup {[mailAddress |-> "a@b.c", accessToken |-> tokA,
           encryptedPassword |-> encrypt(WrongAccessKey, PasswordOf("u1"))]}
    \cup {[mailAddress |-> "a@b.c", accessToken |-> t,
           encryptedPassword |-> encrypt(AccessKeyOf(tokA), PasswordOf("u1"))]
            : t \in {tokShort, tokBad}}

ExternalSalts == {NULL, SaltOf("u2"), WrongSalt}

\* the errors a request may fail with.  The facade tells them apart only
\* where it answers the create-session and the delete-session request; every
\* other request fails with the one kind.
RestErrors == {"ConnectionError", "NotAuthenticatedError"}

LoadErrors == {"ConnectionError"}

\* the second-factor challenges a create-session response may list
Challenges == {<<>>, <<"u2f">>}

\* aes128RandomKey(): the access key of a session that returns credentials
aes128RandomKey == [accessKey |-> <<4, 2>>]

\* the push updates the event bus may deliver
EntityUpdates ==
    {[operation |-> "UPDATE", type |-> "User", instanceListId |-> "", instanceId |-> u]
        : u \in UserIds}
    \cup {[operation |-> "UPDATE", type |-> "GroupInfo",
           instanceListId |-> "groupInfos", instanceId |-> u] : u \in UserIds}
    \cup {[operation |-> "UPDATE", type |-> "Mail",
           instanceListId |-> "mails", instanceId |-> "u1"],
          [operation |-> "DELETE", type |-> "User",
           instanceListId |-> "", instanceId |-> "u1"]}

\* TutanotaProperties.groupEncEntropy as the server may hold it for user
\* group g: none, the entropy of the last logout, or bytes its key cannot
\* decrypt
EncEntropies(g) ==
    {NULL, encrypt(GroupKeyOf(g), [entropy |-> "stored"]),
     encrypt(WrongAccessKey, [entropy |-> "stored"])}

\* ------------------------------------------------------------------ state

VARIABLES
    loginFacade,    \* the fields of the LoginFacade instance (lines 210-216)
    flows,          \* the promise chains in flight, and what each has done
    pushes,         \* the number of push updates delivered so far
    started         \* the number of calls made by a caller that does not wait

vars == <<loginFacade, flows, pushes, started>>

NoKeys == [g \in GroupIds |-> NULL]

\* A flow that has not been started.  op and pc place the chain; the other
\* fields are the closure variables of its callbacks, what the caller and
\* the server have seen of it (sent, notified, returned, lastPoll, answer,
\* raised, err, result), and the state of the facade when it started (startEmpty,
\* fresh, startUser, startPersistent).
IdleFlow ==
    [op |-> "idle", pc |-> "idle",
     mailAddress |-> "", passphrase |-> NULL, returnCredentials |-> FALSE,
     externalUserSalt |-> NULL, encryptedPassword |-> NULL,
     authVerifier |-> NULL, authToken |-> NULL,
     userId |-> "", accessToken |-> NULL, userPassphraseKey |-> NULL,
     challenges |-> <<>>, path |-> NULL, deleteToken |-> NULL, infoId |-> NULL,
     groupId |-> NULL, unwrapped |-> FALSE, data |-> NULL,
     returned |-> NULL, initCalled |-> FALSE,
     startEmpty |-> FALSE, fresh |-> FALSE, startUser |-> "",
     startPersistent |-> FALSE,
     sent |-> {}, notified |-> FALSE, lastPoll |-> "none", entropy |-> "none",
     answer |-> "", raised |-> "", err |-> "", result |-> NULL]

\* ------------------------------------------------------- promise plumbing

Out(this, fl) == [facade |-> this, flow |-> fl]

\* a settled chain keeps what the caller and the server saw of it; the
\* closure variables of its callbacks are garbage
Settled(fl) ==
    [fl EXCEPT !.mailAddress = "", !.passphrase = NULL, !.externalUserSalt = NULL,
               !.encryptedPassword = NULL, !.authVerifier = NULL, !.authToken = NULL,
               !.userPassphraseKey = NULL, !.path = NULL, !.infoId = NULL]

\* the promise of the flow rejects with e
Reject(fl, e) == [Settled(fl) EXCEPT !.pc = "rejected", !.err = e]

\* the promise of the flow resolves with r
Resolve(fl, r) == [Settled(fl) EXCEPT !.pc = "resolved", !.result = r]

\* the flow issues request req and waits for its answer at pc
Send(fl, req, pc) == [fl EXCEPT !.sent = @ \cup {req}, !.pc = pc]

\* the step of the flow that is running throws e
Raise(fl, e) == [fl EXCEPT !.raised = e]

\* ------------------------------------------------------------ LoginFacade

\* _reset(): the old event bus client is closed before it is replaced
_reset(this) ==
    [user |-> NULL,
     userGroupInfo |-> NULL,
     accessToken |-> NULL,
     authVerifierAfterNextRequest |-> NULL,
     groupKeys |-> NoKeys,
     eventBusClient |-> "new",
     orphanConnected |-> this.orphanConnected,
     persistentSession |-> FALSE]

isLoggedIn(this) == this.user # NULL

isExternalUserLoggedIn(this) ==
    this.user # NULL /\ this.user.accountType = "EXTERNAL"

\* getUserGroupId(): getLoggedInUser().userGroup.group, a TypeError without user
getUserGroupId(this) ==
    IF this.user = NULL THEN Thrown("TypeError") ELSE this.user.userGroup.group

\* getUserGroupKey(): groupKeys[getUserGroupId()], undefined when not cached
getUserGroupKey(this) ==
    IF this.user = NULL THEN Thrown("TypeError")
    ELSE this.groupKeys[this.user.userGroup.group]

\* _getMembership(groupId): the membership of the logged-in user for the
\* group, an Error when there is none
_getMembership(this, groupId) ==
    IF this.user = NULL THEN Thrown("TypeError")
    ELSE LET found == {m \in this.user.memberships : m.group = groupId}
         IN  IF found = {} THEN Thrown("Error: no group")
             ELSE CHOOSE m \in found : TRUE

\* getGroupKey unwrapping the membership's key at every call
getGroupKeyUncached(this, fl, groupId) ==
    LET called == [fl EXCEPT !.op = "getGroupKey", !.groupId = groupId]
        userGroupKey == getUserGroupKey(this)
        membership == _getMembership(this, groupId)
    IN  IF IsThrown(userGroupKey) THEN Out(this, Reject(called, userGroupKey.thrown))
        ELSE IF IsThrown(membership) THEN Out(this, Reject(called, membership.thrown))
        ELSE LET key == decrypt(userGroupKey, membership.symEncGKey)
             IN  IF IsThrown(key) THEN Out(this, Reject(called, key.thrown))
                 ELSE Out([this EXCEPT !.groupKeys[groupId] = key],
                          Resolve([called EXCEPT !.unwrapped = TRUE], key))

\* getGroupKey(groupId): synchronous; the cached key if there is one, else
\* the membership's key unwrapped with the user-group key and cached.  The
\* arguments of decryptKey are evaluated left to right, and a throw leaves
\* the cache as it was.
getGroupKey(this, fl, groupId) ==
    LET called == [fl EXCEPT !.op = "getGroupKey", !.groupId = groupId]
        userGroupKey == getUserGroupKey(this)
        membership == _getMembership(this, groupId)
    IN  IF this.groupKeys[groupId] # NULL
        THEN Out(this, Resolve(called, this.groupKeys[groupId]))
        ELSE IF IsThrown(userGroupKey) THEN Out(this, Reject(called, userGroupKey.thrown))
        ELSE IF IsThrown(membership) THEN Out(this, Reject(called, membership.thrown))
        ELSE LET key == decrypt(userGroupKey, membership.symEncGKey)
             IN  IF IsThrown(key) THEN Out(this, Reject(called, key.thrown))
                 ELSE Out([this EXCEPT !.groupKeys[groupId] = key],
                          Resolve([called EXCEPT !.unwrapped = TRUE], key))

\* the event stream of the facade is connected (no client, current or
\* replaced, holds a connection)
StreamConnected(this) == this.eventBusClient = "connected" \/ this.orphanConnected

\* InitCatch with the reset forgotten
InitCatchNoReset(this, fl) == Out(this, Reject(fl, fl.raised))

\* the catch of _initSession: reset, then re-raise what the step threw
InitCatch(this, fl) == Out(_reset(this), Reject(fl, fl.raised))

\* _initSession without the guard against another user's session
_initSessionUnguarded(this, fl, userId, accessToken, userPassphraseKey) ==
    Out([this EXCEPT !.accessToken = accessToken],
        Send([fl EXCEPT !.initCalled = TRUE, !.userId = userId,
                        !.accessToken = accessToken,
                        !.userPassphraseKey = userPassphraseKey],
             "loadUser", "initUser"))

\* _initSession up to its first request
_initSession(this, fl, userId, accessToken, userPassphraseKey) ==
    LET called == [fl EXCEPT !.initCalled = TRUE, !.userId = userId,
                             !.accessToken = accessToken,
                             !.userPassphraseKey = userPassphraseKey]
    IN  IF this.user # NULL /\ userId # this.user.id
        THEN Out(this, Reject(called, "Error: different user"))
        ELSE Out([this EXCEPT !.accessToken = accessToken],
                 Send(called, "loadUser", "initUser"))

\* what a session-establishing operation returns once _initSession is done
SessionResult(this, fl) ==
    LET sessionElementId == _getSessionElementId(this.accessToken)
    IN  IF IsThrown(sessionElementId) THEN Out(this, Reject(fl, sessionElementId.thrown))
        ELSE Out(this, Resolve(fl,
                [user |-> this.user,
                 userGroupInfo |-> this.userGroupInfo,
                 sessionElementId |-> sessionElementId,
                 credentials |->
                    IF fl.op # "resumeSession" /\ fl.returnCredentials
                    THEN [mailAddress |-> fl.mailAddress,
                          accessToken |-> this.accessToken,
                          encryptedPassword |-> encrypt(aes128RandomKey, fl.passphrase)]
                    ELSE NULL]))

\* AfterInitSession with resumeSession not marking the session persistent
AfterInitSessionKeepFlag(this, fl) == SessionResult(this, fl)

\* the callback chained on _initSession by the operation that called it
AfterInitSession(this, fl) ==
    IF fl.op = "resumeSession"
    THEN SessionResult([this EXCEPT !.persistentSession = TRUE], fl)
    ELSE SessionResult(this, fl)

\* this._eventBusClient.connect(false), the last step of _initSession
Connect(this, fl, connectOk) ==
    IF connectOk
    THEN AfterInitSession([this EXCEPT !.eventBusClient = "connected"], fl)
    ELSE InitCatch(this, Raise(fl, "Error: connect"))

\* OnUserLoaded with the user-group key not written to the cache
OnUserLoadedNoKey(this, fl, user) ==
    LET key == decrypt(fl.userPassphraseKey, user.userGroup.symEncGKey)
    IN  IF IsThrown(key)
        THEN InitCatch([this EXCEPT !.user = user], Raise(fl, key.thrown))
        ELSE Out([this EXCEPT !.user = user], Send(fl, "loadGroupInfo", "initInfo"))

\* load(UserTypeRef, userId) answered with user
OnUserLoaded(this, fl, user) ==
    LET withUser == [this EXCEPT !.user = user]
        key == decrypt(fl.userPassphraseKey, user.userGroup.symEncGKey)
    IN  IF IsThrown(key) THEN InitCatch(withUser, Raise(fl, key.thrown))
        ELSE Out([withUser EXCEPT !.groupKeys[user.userGroup.group] = key],
                 Send(fl, "loadGroupInfo", "initInfo"))

\* load(GroupInfoTypeRef, ...) answered; loadEntropy() issues its loadRoot
OnGroupInfoLoaded(this, fl, groupInfo) ==
    LET withInfo == [this EXCEPT !.userGroupInfo = groupInfo]
    IN  IF IsThrown(getUserGroupId(withInfo))
        THEN InitCatch(withInfo, Raise(fl, "TypeError"))
        ELSE Out(withInfo, Send(fl, "loadRoot", "initEntropy"))

\* loadEntropy(): what becomes of the persisted entropy; every exception of
\* the decryption is caught
loadEntropy(this, groupEncEntropy) ==
    IF groupEncEntropy = NULL THEN "none"
    ELSE IF IsThrown(getUserGroupKey(this)) THEN "ignored"
    ELSE IF IsThrown(decrypt(getUserGroupKey(this), groupEncEntropy)) THEN "ignored"
    ELSE "added"

\* OnEntropyLoaded with the failure of the entropy decryption not caught
OnEntropyLoadedFatal(this, fl, groupEncEntropy, connectOk) ==
    LET restored == [fl EXCEPT !.entropy = loadEntropy(this, groupEncEntropy)]
    IN  IF restored.entropy = "ignored"
        THEN InitCatch(this, Raise(restored, "CryptoError"))
        ELSE IF ~isExternalUserLoggedIn(this)
        THEN Out(this, Send(restored, "receiveInfo", "initNotify"))
        ELSE Connect(this, restored, connectOk)

\* loadRoot of loadEntropy answered; then _getInfoMails(), and for an
\* external user the connect at once
OnEntropyLoaded(this, fl, groupEncEntropy, connectOk) ==
    LET restored == [fl EXCEPT !.entropy = loadEntropy(this, groupEncEntropy)]
    IN  IF ~isExternalUserLoggedIn(this)
        THEN Out(this, Send(restored, "receiveInfo", "initNotify"))
        ELSE Connect(this, restored, connectOk)

\* createSession up to the salt request of _loadUserPassphraseKey
createSession(this, fl, mailAddress, passphrase, returnCredentials) ==
    Out([this EXCEPT !.persistentSession = returnCredentials],
        Send([fl EXCEPT !.op = "createSession", !.mailAddress = mailAddress,
                        !.passphrase = passphrase,
                        !.returnCredentials = returnCredentials],
             "salt", "salt"))

\* the salt arrived: createSession posts the session data, resumeSession
\* enters _initSession
OnSaltLoaded(this, fl, salt) ==
    LET userPassphraseKey == generateKeyFromPassphrase(fl.passphrase, salt)
    IN  IF fl.op = "createSession"
        THEN Out(this, Send([fl EXCEPT !.userPassphraseKey = userPassphraseKey,
                                       !.authVerifier =
                                           createAuthVerifierAsBase64Url(userPassphraseKey)],
                            "createSession", "create"))
        ELSE _initSession(this, fl, fl.userId, fl.accessToken, userPassphraseKey)

\* the create-session answer: with challenges pending, createSession notifies
\* the caller and polls; createExternalSession never looks at the challenges
OnSessionCreated(this, fl, createSessionReturn) ==
    IF fl.op = "createSession" /\ Len(createSessionReturn.challenges) > 0
    THEN LET sessionId == SessionPath(createSessionReturn.accessToken)
         IN  IF IsThrown(sessionId) THEN Out(this, Reject(fl, sessionId.thrown))
             ELSE Out(this, Send([fl EXCEPT !.notified = TRUE,
                                            !.userId = createSessionReturn.user,
                                            !.accessToken = createSessionReturn.accessToken],
                                 "secondFactor", "poll"))
    ELSE _initSession(this, fl, createSessionReturn.user,
                      createSessionReturn.accessToken, fl.userPassphraseKey)

\* OnSecondFactorStatus polling again whatever the answer
OnSecondFactorStatusForever(this, fl, secondFactorPending) ==
    Out(this, Send(fl, "secondFactor", "poll"))

\* OnSecondFactorStatus taking any answer for the approval
OnSecondFactorStatusOnce(this, fl, secondFactorPending) ==
    _initSession(this, fl, fl.userId, fl.accessToken, fl.userPassphraseKey)

\* _waitUntilSecondFactorApproved: one answer of the status request
OnSecondFactorStatus(this, fl, secondFactorPending) ==
    IF secondFactorPending
    THEN Out(this, Send(fl, "secondFactor", "poll"))
    ELSE _initSession(this, fl, fl.userId, fl.accessToken, fl.userPassphraseKey)

\* createExternalSession up to the create-session request
createExternalSession(this, fl, userId, passphrase, salt, returnCredentials) ==
    LET userPassphraseKey == generateKeyFromPassphrase(passphrase, salt)
        called == [fl EXCEPT !.op = "createExternalSession", !.mailAddress = userId,
                             !.passphrase = passphrase,
                             !.returnCredentials = returnCredentials,
                             !.userId = userId]
    IN  IF this.user # NULL
        THEN Out(this, Reject(called, "Error: user already logged in"))
        ELSE Out(this, Send([called EXCEPT
                                !.userPassphraseKey = userPassphraseKey,
                                !.authVerifier =
                                    createAuthVerifierAsBase64Url(userPassphraseKey),
                                !.authToken = [enc |-> "base64url", of |-> hash(salt)]],
                            "createSession", "create"))

\* resumeSession up to the request of _loadSessionData
resumeSession(this, fl, credentials, externalUserSalt) ==
    LET path == SessionPath(credentials.accessToken)
        called == [fl EXCEPT !.op = "resumeSession",
                             !.mailAddress = credentials.mailAddress,
                             !.accessToken = credentials.accessToken,
                             !.encryptedPassword = credentials.encryptedPassword,
                             !.externalUserSalt = externalUserSalt]
    IN  IF IsThrown(path) THEN Out(this, Reject(called, path.thrown))
        ELSE Out(this, Send([called EXCEPT !.path = path], "loadSession", "session"))

\* OnSessionDataLoaded going on with whatever the decryption gave
OnSessionDataLoadedUnchecked(this, fl, sessionData) ==
    LET passphrase == decrypt(sessionData.accessKey, fl.encryptedPassword)
    IN  IF fl.externalUserSalt # NULL
        THEN _initSession(this, [fl EXCEPT !.passphrase = passphrase],
                          sessionData.userId, fl.accessToken,
                          generateKeyFromPassphrase(passphrase, fl.externalUserSalt))
        ELSE Out(this, Send([fl EXCEPT !.passphrase = passphrase,
                                       !.userId = sessionData.userId],
                            "salt", "salt"))

\* the session record arrived: decrypt the stored passphrase, then derive
\* the key from the external salt or ask for the salt
OnSessionDataLoaded(this, fl, sessionData) ==
    LET passphrase == decrypt(sessionData.accessKey, fl.encryptedPassword)
    IN  IF IsThrown(passphrase) THEN Out(this, Reject(fl, passphrase.thrown))
        ELSE IF fl.externalUserSalt # NULL
        THEN _initSession(this, [fl EXCEPT !.passphrase = passphrase],
                          sessionData.userId, fl.accessToken,
                          generateKeyFromPassphrase(passphrase, fl.externalUserSalt))
        ELSE Out(this, Send([fl EXCEPT !.passphrase = passphrase,
                                       !.userId = sessionData.userId],
                            "salt", "salt"))

\* LogoutFinally deleting the session whatever the persistent flag
LogoutFinallyAlwaysDelete(this, fl) ==
    LET path == SessionPath(this.accessToken)
    IN  IF IsThrown(path) THEN Out(this, Reject(fl, path.thrown))
        ELSE Out(this, Send([fl EXCEPT !.path = path,
                                       !.deleteToken = this.accessToken],
                            "deleteSession", "loDelete"))

\* what logout does once storeEntropy has settled: delete the session unless
\* it is persistent, and reset in the finally of that
LogoutFinally(this, fl) ==
    IF ~this.persistentSession
    THEN LET path == SessionPath(this.accessToken)
         IN  IF IsThrown(path) THEN Out(this, Reject(fl, path.thrown))
             ELSE Out(this, Send([fl EXCEPT !.path = path,
                                            !.deleteToken = this.accessToken],
                                 "deleteSession", "loDelete"))
    ELSE Out(_reset(this), Resolve(fl, NULL))

\* logout without its check for a logged-in user
logoutUnguarded(this, fl) ==
    Out([this EXCEPT !.eventBusClient = "closed"],
        Send([fl EXCEPT !.op = "logout"], "loadRoot", "loRoot"))

\* logout leaving the event bus open while it persists the entropy
logoutStreamOpen(this, fl) ==
    LET called == [fl EXCEPT !.op = "logout"]
    IN  IF this.user = NULL THEN Out(this, Resolve(called, NULL))
        ELSE Out(this, Send(called, "loadRoot", "loRoot"))

\* logout up to the loadRoot of storeEntropy
logout(this, fl) ==
    LET called == [fl EXCEPT !.op = "logout"]
    IN  IF this.user = NULL THEN Out(this, Resolve(called, NULL))
        ELSE Out([this EXCEPT !.eventBusClient = "closed"],
                 Send(called, "loadRoot", "loRoot"))

\* storeEntropy: the properties arrived, encrypt new entropy and update
OnLogoutPropertiesLoaded(this, fl) ==
    IF IsThrown(getUserGroupKey(this)) \/ getUserGroupKey(this) = NULL
    THEN LogoutFinally(this, fl)
    ELSE Out(this, Send(fl, "updateProperties", "loUpdate"))

\* deleteSession answered: NotAuthenticatedError counts as deleted; the
\* finally resets whatever the answer
OnSessionDeleted(this, fl, answer) ==
    IF answer \in {"ok", "NotAuthenticatedError"}
    THEN Out(_reset(this), Resolve(fl, NULL))
    ELSE Out(_reset(this), Reject(fl, answer))

\* deleteSession authenticating with the active token of the facade
deleteSessionActiveToken(this, fl, accessToken) ==
    LET path == SessionPath(accessToken)
        called == [fl EXCEPT !.op = "deleteSession", !.accessToken = accessToken]
    IN  IF IsThrown(path) THEN Out(this, Reject(called, path.thrown))
        ELSE Out(this, Send([called EXCEPT !.path = path,
                                           !.deleteToken = this.accessToken],
                            "deleteSession", "delete"))

\* deleteSession(accessToken) called by the caller, up to its DELETE request;
\* the path and the accessToken header are made of the token passed in
deleteSession(this, fl, accessToken) ==
    LET path == SessionPath(accessToken)
        called == [fl EXCEPT !.op = "deleteSession", !.accessToken = accessToken]
    IN  IF IsThrown(path) THEN Out(this, Reject(called, path.thrown))
        ELSE Out(this, Send([called EXCEPT !.path = path,
                                           !.deleteToken = accessToken],
                            "deleteSession", "delete"))

\* the DELETE of deleteSession answered: a NotAuthenticatedError is caught
\* and logged, every other error goes to the caller
OnDeleteAnswered(this, fl, answer) ==
    IF answer \in {"ok", "NotAuthenticatedError"}
    THEN Out(this, Resolve(fl, NULL))
    ELSE Out(this, Reject(fl, answer))

\* entityEventReceived reloading the user for an update of any User record
entityEventReceivedAnyUser(this, fl, data) ==
    LET called == [fl EXCEPT !.op = "entityEvent", !.data = data]
    IN  IF this.user # NULL /\ data.operation = "UPDATE" /\ data.type = "User"
        THEN Out(this, Send([called EXCEPT !.userId = this.user.id],
                            "loadUser", "evUser"))
        ELSE Out(this, Resolve(called, NULL))

\* entityEventReceived up to its load request
entityEventReceived(this, fl, data) ==
    LET called == [fl EXCEPT !.op = "entityEvent", !.data = data]
    IN  IF /\ this.user # NULL
           /\ data.operation = "UPDATE"
           /\ data.type = "User"
           /\ this.user.id = data.instanceId
        THEN Out(this, Send([called EXCEPT !.userId = this.user.id],
                            "loadUser", "evUser"))
        ELSE IF /\ this.userGroupInfo # NULL
                /\ data.operation = "UPDATE"
                /\ data.type = "GroupInfo"
                /\ this.userGroupInfo.id =
                       [listId |-> data.instanceListId, elementId |-> data.instanceId]
        THEN Out(this, Send([called EXCEPT !.infoId = this.userGroupInfo.id],
                            "loadGroupInfo", "evInfo"))
        ELSE Out(this, Resolve(called, NULL))

OnUserUpdated(this, fl, updatedUser) ==
    Out([this EXCEPT !.user = updatedUser], Resolve(fl, NULL))

OnGroupInfoUpdated(this, fl, updatedUserGroupInfo) ==
    Out([this EXCEPT !.userGroupInfo = updatedUserGroupInfo], Resolve(fl, NULL))

\* ------------------------------------------------------------------ server

\* the create-session request of the flow is one the server accepts for u
ServerAccepts(fl, u) ==
    /\ fl.authVerifier = createAuthVerifierAsBase64Url(
                            generateKeyFromPassphrase(PasswordOf(u), SaltOf(u)))
    /\ IF fl.op = "createSession"
       THEN fl.mailAddress = MailAddressOf(u) /\ fl.mailAddress \in MailAddresses
       ELSE /\ fl.userId = u
            /\ AccountTypeOf(u) = "EXTERNAL"
            /\ fl.authToken = [enc |-> "base64url", of |-> hash(SaltOf(u))]

\* the issued token whose session record lives at the path of the flow's
\* request and which the request carries
SessionsAt(fl) == {t \in ServerTokens : SessionPath(t) = fl.path /\ fl.accessToken = t}

\* ----------------------------------------------------------------- actions

\* the caller serialises its calls: no call of the caller is in flight or
\* unreturned (push updates are delivered by the event bus, not the caller)
NoClientCall == \A g \in Flows : flows[g].op \in {"idle", "entityEvent"}

\* a new call takes the lowest free call slot
Free(f) ==
    /\ f \in Calls
    /\ flows[f].op = "idle"
    /\ \A g \in Calls : g < f => flows[g].op # "idle"

MayStart(f, overlap) ==
    /\ Free(f)
    /\ IF overlap THEN started < MaxStarts ELSE NoClientCall

\* the LoginState is empty: as the constructor leaves it
EmptyState(this) ==
    /\ this.user = NULL
    /\ this.userGroupInfo = NULL
    /\ this.accessToken = NULL
    /\ this.authVerifierAfterNextRequest = NULL
    /\ this.groupKeys = NoKeys
    /\ ~this.persistentSession
    /\ ~StreamConnected(this)

\* the flow as it starts: whether the facade is empty, whether it is logged
\* out with no other chain in flight, who is logged in, and the persistent
\* flag
Started(f) ==
    [IdleFlow EXCEPT
        !.startEmpty = EmptyState(loginFacade),
        !.fresh = (loginFacade.user = NULL
                   /\ \A g \in Flows : flows[g].pc = "idle"),
        !.startUser = IF loginFacade.user = NULL THEN "" ELSE loginFacade.user.id,
        !.startPersistent = loginFacade.persistentSession]

Step(f, out) ==
    /\ loginFacade' = out.facade
    /\ flows' = [flows EXCEPT ![f] = out.flow]

Apply(f, out) == Step(f, out) /\ UNCHANGED <<pushes, started>>

\* the caller makes a call: the call runs up to its first request
Begin(f, overlap, out) ==
    /\ Step(f, out)
    /\ started' = IF overlap THEN started + 1 ELSE started
    /\ UNCHANGED pushes

\* the request the flow waits for fails with e; nothing catches it
Fails(f, e) ==
    /\ flows' = [flows EXCEPT ![f] = Reject(flows[f], e)]
    /\ UNCHANGED <<loginFacade, pushes, started>>

CreateSession(f, overlap) ==
    /\ MayStart(f, overlap)
    /\ \E mailAddress \in MailAddresses, passphrase \in Passphrases,
          returnCredentials \in BOOLEAN :
            Begin(f, overlap, createSession(loginFacade, Started(f), mailAddress,
                                            passphrase, returnCredentials))

CreateExternalSession(f, overlap) ==
    /\ MayStart(f, overlap)
    /\ \E userId \in UserIds, passphrase \in Passphrases,
          salt \in {SaltOf("u2"), WrongSalt}, returnCredentials \in BOOLEAN :
            Begin(f, overlap, createExternalSession(loginFacade, Started(f), userId,
                                                    passphrase, salt,
                                                    returnCredentials))

ResumeSession(f, overlap) ==
    /\ MayStart(f, overlap)
    /\ \E credentials \in Credentials, externalUserSalt \in ExternalSalts :
            Begin(f, overlap, resumeSession(loginFacade, Started(f), credentials,
                                            externalUserSalt))

Logout(f, overlap) ==
    /\ MayStart(f, overlap)
    /\ Begin(f, overlap, logout(loginFacade, Started(f)))

\* the tokens a caller may hand to deleteSession
DeleteTokens == ServerTokens \cup {tokShort, tokBad}

DeleteSession(f, overlap) ==
    /\ MayStart(f, overlap)
    /\ \E accessToken \in DeleteTokens :
            Begin(f, overlap, deleteSession(loginFacade, Started(f), accessToken))

\* a synchronous call: it has returned or thrown when the step is over
GetGroupKey(f, overlap) ==
    /\ MayStart(f, overlap)
    /\ \E groupId \in GroupIds :
            Begin(f, overlap, getGroupKey(loginFacade, Started(f), groupId))

\* the event bus delivers an update while it is connected
EntityEventReceived(f) ==
    /\ f = MaxCalls + pushes + 1
    /\ loginFacade.eventBusClient = "connected"
    /\ pushes < MaxPushes
    /\ pushes' = pushes + 1
    /\ UNCHANGED started
    /\ \E data \in EntityUpdates :
            Step(f, entityEventReceived(loginFacade, IdleFlow, data))

\* SaltService answers: the salt of a registered address, or an error
SaltAnswer(f) ==
    /\ flows[f].pc = "salt"
    /\ \/ /\ flows[f].mailAddress \in MailAddresses
          /\ Apply(f, OnSaltLoaded(loginFacade, flows[f],
                                   SaltOf(UserOfMail(flows[f].mailAddress))))
       \/ \E e \in LoadErrors : Fails(f, e)

\* SessionService answers the POST.  A ConnectionError of createSession is
\* turned into a NotAuthenticatedError on Trident (lines 242-248).
CreateSessionAnswer(f) ==
    /\ flows[f].pc = "create"
    /\ \/ \E u \in UserIds, challenges \in Challenges :
            /\ ServerAccepts(flows[f], u)
            /\ flows[f].op = "createExternalSession" => challenges = <<>>
            /\ Apply(f, OnSessionCreated(loginFacade,
                            [flows[f] EXCEPT !.challenges = challenges,
                                             !.returned = TokenOf(u)],
                            [user |-> u, accessToken |-> TokenOf(u),
                             challenges |-> challenges]))
       \/ \E e \in RestErrors, trident \in BOOLEAN :
            Fails(f, IF flows[f].op = "createSession" /\ e = "ConnectionError" /\ trident
                     THEN "NotAuthenticatedError" ELSE e)

\* SecondFactorAuthService answers a status request
SecondFactorAnswer(f) ==
    /\ flows[f].pc = "poll"
    /\ \/ \E secondFactorPending \in BOOLEAN :
            Apply(f, OnSecondFactorStatus(loginFacade,
                        [flows[f] EXCEPT !.lastPoll =
                            IF secondFactorPending THEN "pending" ELSE "approved"],
                        secondFactorPending))
       \/ \E e \in LoadErrors : Fails(f, e)

\* SecondFactorAuthService reports secondFactorPending = false
SecondFactorApproved(f) ==
    /\ flows[f].pc = "poll"
    /\ Apply(f, OnSecondFactorStatus(loginFacade,
                    [flows[f] EXCEPT !.lastPoll = "approved"], FALSE))

\* the GET of the session record is answered
SessionDataAnswer(f) ==
    /\ flows[f].pc = "session"
    /\ \/ \E t \in SessionsAt(flows[f]) :
            Apply(f, OnSessionDataLoaded(loginFacade, flows[f],
                        [userId |-> Session(t).user, accessKey |-> Session(t).accessKey]))
       \/ \E e \in LoadErrors : Fails(f, e)

\* inside _initSession every failure is caught, reset and re-raised
InitFails(f, e) == Apply(f, InitCatch(loginFacade, Raise(flows[f], e)))

UserAnswer(f) ==
    /\ flows[f].pc = "initUser"
    /\ \/ \E v \in Versions :
            Apply(f, OnUserLoaded(loginFacade, flows[f], User(flows[f].userId, v)))
       \/ \E e \in LoadErrors : InitFails(f, e)

GroupInfoAnswer(f) ==
    /\ flows[f].pc = "initInfo"
    /\ \/ \E v \in Versions :
            Apply(f, OnGroupInfoLoaded(loginFacade, flows[f],
                        GroupInfo(GroupInfoIdOf(flows[f].userId), v)))
       \/ \E e \in LoadErrors : InitFails(f, e)

EntropyAnswer(f) ==
    /\ flows[f].pc = "initEntropy"
    /\ \/ \E groupEncEntropy \in EncEntropies(UserGroupOf(flows[f].userId)),
             connectOk \in BOOLEAN :
            Apply(f, OnEntropyLoaded(loginFacade, flows[f], groupEncEntropy, connectOk))
       \/ \E e \in LoadErrors : InitFails(f, e)

ReceiveInfoAnswer(f) ==
    /\ flows[f].pc = "initNotify"
    /\ \/ \E connectOk \in BOOLEAN : Apply(f, Connect(loginFacade, flows[f], connectOk))
       \/ \E e \in LoadErrors : InitFails(f, e)

\* storeEntropy: its loadRoot is answered; a failure is logged and logout
\* goes on
LogoutPropertiesAnswer(f) ==
    /\ flows[f].pc = "loRoot"
    /\ \/ Apply(f, OnLogoutPropertiesLoaded(loginFacade, flows[f]))
       \/ Apply(f, LogoutFinally(loginFacade, flows[f]))

\* storeEntropy: its update is answered, with success or not
LogoutUpdateAnswer(f) ==
    /\ flows[f].pc = "loUpdate"
    /\ Apply(f, LogoutFinally(loginFacade, flows[f]))

DeleteSessionAnswer(f) ==
    /\ flows[f].pc = "loDelete"
    /\ \E answer \in {"ok"} \cup RestErrors :
            Apply(f, OnSessionDeleted(loginFacade, flows[f], answer))

\* the DELETE of a deleteSession call is answered
DeleteAnswer(f) ==
    /\ flows[f].pc = "delete"
    /\ \E answer \in {"ok"} \cup RestErrors :
            Apply(f, OnDeleteAnswered(loginFacade, [flows[f] EXCEPT !.answer = answer],
                                      answer))

EventUserAnswer(f) ==
    /\ flows[f].pc = "evUser"
    /\ \/ \E v \in Versions :
            Apply(f, OnUserUpdated(loginFacade, flows[f], User(flows[f].userId, v)))
       \/ \E e \in LoadErrors : Fails(f, e)

EventGroupInfoAnswer(f) ==
    /\ flows[f].pc = "evInfo"
    /\ \/ \E v \in Versions :
            Apply(f, OnGroupInfoUpdated(loginFacade, flows[f],
                                        GroupInfo(flows[f].infoId, v)))
       \/ \E e \in LoadErrors : Fails(f, e)

\* the caller (or the event bus) has taken the outcome of the chain
Return(f) ==
    /\ flows[f].pc \in {"resolved", "rejected"}
    /\ flows' = [flows EXCEPT ![f] = IdleFlow]
    /\ UNCHANGED <<loginFacade, pushes, started>>

\* ---------------------------------------------------------- specification

\* the constructor calls _reset() on a facade without event bus client
Init ==
    /\ loginFacade = _reset([orphanConnected |-> FALSE])
    /\ flows = [f \in Flows |-> IdleFlow]
    /\ pushes = 0
    /\ started = 0

\* the answers to the requests of the calls that establish and end a session
CallAnswer(f) ==
    \/ SaltAnswer(f)
    \/ CreateSessionAnswer(f)
    \/ SecondFactorAnswer(f)
    \/ SessionDataAnswer(f)
    \/ UserAnswer(f)
    \/ GroupInfoAnswer(f)
    \/ EntropyAnswer(f)
    \/ ReceiveInfoAnswer(f)
    \/ LogoutPropertiesAnswer(f)
    \/ LogoutUpdateAnswer(f)
    \/ DeleteSessionAnswer(f)
    \/ Return(f)

Answer(f) ==
    \/ CallAnswer(f)
    \/ DeleteAnswer(f)
    \/ EventUserAnswer(f)
    \/ EventGroupInfoAnswer(f)

Next ==
    \E f \in Flows :
        \/ CreateSession(f, FALSE)
        \/ CreateExternalSession(f, FALSE)
        \/ ResumeSession(f, FALSE)
        \/ Logout(f, FALSE)
        \/ DeleteSession(f, FALSE)
        \/ GetGroupKey(f, FALSE)
        \/ EntityEventReceived(f)
        \/ Answer(f)

Spec == Init /\ [][Next]_vars

\* The server answers every status request, and the second factor is
\* approved in the end: a wait that keeps polling gets the approval.
SpecFair == Spec /\ \A f \in Calls : WF_vars(SecondFactorApproved(f))

\* A caller that does not wait for a call to settle before it makes the
\* next: the calls that establish and end a session, overlapping, with an
\* event bus that delivers no update meanwhile.
NextOverlap ==
    \E f \in Calls :
        \/ CreateSession(f, TRUE)
        \/ CreateExternalSession(f, TRUE)
        \/ ResumeSession(f, TRUE)
        \/ Logout(f, TRUE)
        \/ CallAnswer(f)

SpecOverlap == Init /\ [][NextOverlap]_vars

\* ------------------------------------------------------------------ claims

SessionOps == {"createSession", "createExternalSession", "resumeSession"}

InitPcs == {"initUser", "initInfo", "initEntropy", "initNotify"}

LogoutPcs == {"loRoot", "loUpdate", "loDelete"}

\* the state a finished logout must leave
FullyReset(this) ==
    /\ ~isLoggedIn(this)
    /\ this.accessToken = NULL
    /\ this.groupKeys = NoKeys
    /\ ~StreamConnected(this)

\* C1: a session establishment started on the empty LoginState that fails
\* leaves the LoginState empty at the moment its promise rejects.
C1_FailedEstablishmentLeavesEmptyState ==
    [][\A f \in Calls :
        (/\ flows[f].pc # "rejected"
         /\ flows'[f].pc = "rejected"
         /\ flows'[f].op \in SessionOps
         /\ flows'[f].startEmpty)
        => EmptyState(loginFacade')]_vars

\* C2: when a step of _initSession after the guard throws, the facade is
\* reset in the same step and the promise rejects with the error thrown,
\* whatever the state was on entry.
C2_InitSessionFailureResets ==
    [][\A f \in Calls :
        (flows[f].raised = "" /\ flows'[f].raised # "")
        => /\ flows[f].pc \in InitPcs
           /\ flows'[f].pc = "rejected"
           /\ flows'[f].err = flows'[f].raised
           /\ EmptyState(loginFacade')]_vars

\* C2 witness: a same-user refresh of an active session failed inside
\* _initSession and the facade is logged out with the stream closed.
C2_Witness ==
    \E f \in Calls :
        /\ flows[f].op = "createSession"
        /\ flows[f].pc = "rejected"
        /\ flows[f].raised # ""
        /\ flows[f].startUser = flows[f].userId
        /\ ~isLoggedIn(loginFacade)
        /\ ~StreamConnected(loginFacade)

\* C3: _initSession entered with the id of another user than the active one
\* rejects with the state-conflict error, changes no field of the facade and
\* issues no load.
C3_DifferentUserLeavesStateUntouched ==
    [][\A f \in Calls :
        (/\ ~flows[f].initCalled
         /\ flows'[f].initCalled
         /\ loginFacade.user # NULL
         /\ flows'[f].userId # loginFacade.user.id)
        => /\ loginFacade' = loginFacade
           /\ flows'[f].pc = "rejected"
           /\ flows'[f].err = "Error: different user"
           /\ "loadUser" \notin flows'[f].sent]_vars

C3_Witness ==
    \E f \in Calls :
        /\ flows[f].initCalled
        /\ flows[f].pc = "rejected"
        /\ flows[f].err = "Error: different user"
        /\ loginFacade.user # NULL
        /\ loginFacade.user.id # flows[f].userId
        /\ loginFacade.accessToken = TokenOf(loginFacade.user.id)

\* C4: every logout started in a logged-in state ends, resolved or rejected,
\* in the fully reset state.
C4_LogoutEndsReset ==
    [][\A f \in Calls :
        (/\ flows[f].op = "logout"
         /\ flows[f].pc \in LogoutPcs
         /\ flows'[f].pc \notin LogoutPcs)
        => /\ flows'[f].pc \in {"resolved", "rejected"}
           /\ FullyReset(loginFacade')]_vars

\* C5: from the first request of entropy persistence to the final reset of a
\* logout the event stream is not connected.
C5_StreamClosedDuringLogout ==
    \A f \in Calls :
        (flows[f].op = "logout" /\ flows[f].pc \in LogoutPcs)
        => /\ "loadRoot" \in flows[f].sent
           /\ ~StreamConnected(loginFacade)

C5_Witness ==
    \E f \in Calls :
        /\ flows[f].op = "logout"
        /\ flows[f].pc = "loUpdate"
        /\ loginFacade.eventBusClient = "closed"
        /\ isLoggedIn(loginFacade)

Undecryptable(fl) ==
    \A t \in SessionsAt(fl) : fl.encryptedPassword.encKey # Session(t).accessKey

\* C9: resumeSession changes no field of the facade before _initSession, and
\* when the loaded session record cannot decrypt the stored password it
\* rejects with a CryptoError without entering _initSession or asking for
\* the salt.
C9_UndecryptablePasswordRejects ==
    [][\A f \in Calls :
        /\ (flows[f].op = "idle" /\ flows'[f].op = "resumeSession")
            => loginFacade' = loginFacade
        /\ (/\ flows[f].op = "resumeSession"
            /\ flows[f].pc = "session"
            /\ flows'[f].pc # "session"
            /\ Undecryptable(flows[f]))
            => /\ loginFacade' = loginFacade
               /\ flows'[f].pc = "rejected"
               /\ flows'[f].err \in {"CryptoError"} \cup LoadErrors
               /\ ~flows'[f].initCalled
               /\ "salt" \notin flows'[f].sent]_vars

C9_Witness ==
    \E f \in Calls :
        /\ flows[f].op = "resumeSession"
        /\ flows[f].pc = "rejected"
        /\ flows[f].err = "CryptoError"
        /\ flows[f].fresh
        /\ ~flows[f].initCalled
        /\ ~isLoggedIn(loginFacade)

\* C10: when resumeSession resolves the persistent flag is true, and a logout
\* started with the flag true sends no delete-session request.
C10_ResumedSessionIsPersistent ==
    [][\A f \in Calls :
        /\ (/\ flows'[f].op = "resumeSession"
            /\ flows[f].pc # "resolved"
            /\ flows'[f].pc = "resolved")
            => loginFacade'.persistentSession
        /\ (flows'[f].op = "logout" /\ flows'[f].startPersistent)
            => "deleteSession" \notin flows'[f].sent]_vars

\* C10 witness: a session resumed while the flag was false is persistent.
C10_Witness ==
    \E f \in Calls :
        /\ flows[f].op = "resumeSession"
        /\ flows[f].pc = "resolved"
        /\ ~flows[f].startPersistent
        /\ loginFacade.persistentSession
        /\ isLoggedIn(loginFacade)

\* C11: a deleteSession call changes no field of the facade at any of its
\* steps, sends its DELETE for the path of the token passed in and with that
\* token as the accessToken header, resolves when the answer is success or
\* NotAuthenticatedError, and rejects with the error of any other answer.
C11_DeleteSessionContract ==
    [][\A f \in Calls :
        /\ (flows'[f].op = "deleteSession" /\ flows'[f] # flows[f])
            => loginFacade' = loginFacade
        /\ (flows[f].op = "idle" /\ flows'[f].pc = "delete")
            => /\ flows'[f].deleteToken = flows'[f].accessToken
               /\ flows'[f].path = SessionPath(flows'[f].accessToken)
        /\ (flows[f].pc = "delete" /\ flows'[f].pc # "delete")
            => IF flows'[f].answer \in {"ok", "NotAuthenticatedError"}
               THEN flows'[f].pc = "resolved"
               ELSE flows'[f].pc = "rejected" /\ flows'[f].err = flows'[f].answer]_vars

\* C11 witness: while a user is logged in, a deleteSession for another token
\* than the active one was answered NotAuthenticatedError and has resolved.
C11_Witness ==
    \E f \in Calls :
        /\ flows[f].op = "deleteSession"
        /\ flows[f].pc = "resolved"
        /\ flows[f].answer = "NotAuthenticatedError"
        /\ isLoggedIn(loginFacade)
        /\ loginFacade.accessToken \in ServerTokens
        /\ flows[f].deleteToken # loginFacade.accessToken

\* C12: a getGroupKey for a group whose key is in the cache returns the
\* cached key, unwraps nothing and leaves the facade as it is; and an entry
\* of the cache, once written, keeps its value until a reset empties the
\* cache.
C12_GroupKeyLookupIdempotent ==
    [][/\ \A f \in Calls :
            (/\ flows[f].op = "idle"
             /\ flows'[f].op = "getGroupKey"
             /\ loginFacade.groupKeys[flows'[f].groupId] # NULL)
            => /\ flows'[f].pc = "resolved"
               /\ flows'[f].result = loginFacade.groupKeys[flows'[f].groupId]
               /\ ~flows'[f].unwrapped
               /\ loginFacade' = loginFacade
       /\ \A g \in GroupIds :
            loginFacade.groupKeys[g] # NULL
            => \/ loginFacade'.groupKeys[g] = loginFacade.groupKeys[g]
               \/ loginFacade'.groupKeys = NoKeys]_vars

\* C12 witness: a second lookup of a mail group's key was served from the
\* cache an earlier lookup had filled.
C12_Witness ==
    \E f \in Calls :
        /\ flows[f].op = "getGroupKey"
        /\ flows[f].pc = "resolved"
        /\ ~flows[f].unwrapped
        /\ isLoggedIn(loginFacade)
        /\ flows[f].groupId = MailGroupOf(loginFacade.user.id)
        /\ flows[f].result = GroupKeyOf(flows[f].groupId)

\* C13: in a logged-in state a getGroupKey for a group that is neither the
\* user group nor the group of a membership of the cached user throws, and a
\* lookup that throws leaves the cache as it was.
C13_NonMemberLookupFails ==
    [][\A f \in Calls :
        (flows[f].op = "idle" /\ flows'[f].op = "getGroupKey")
        => /\ (/\ isLoggedIn(loginFacade)
               /\ flows'[f].groupId # loginFacade.user.userGroup.group
               /\ \A m \in loginFacade.user.memberships :
                        m.group # flows'[f].groupId)
               => flows'[f].pc = "rejected"
           /\ flows'[f].pc = "rejected"
               => loginFacade'.groupKeys = loginFacade.groupKeys]_vars

\* the update names the User record of the active user
NamesActiveUser(this, data) ==
    /\ this.user # NULL
    /\ data.operation = "UPDATE"
    /\ data.type = "User"
    /\ data.instanceId = this.user.id

\* the update names the active user-group-info record
NamesActiveGroupInfo(this, data) ==
    /\ this.userGroupInfo # NULL
    /\ data.operation = "UPDATE"
    /\ data.type = "GroupInfo"
    /\ [listId |-> data.instanceListId, elementId |-> data.instanceId]
            = this.userGroupInfo.id

\* C14: entityEventReceived changes nothing when it is called; it loads the
\* user exactly for an update that names the active user's record, the group
\* info exactly for one that names the active group-info record, and for any
\* other update, or without active user, sends nothing and resolves at once.
\* The answer of the load replaces the one cached record by the record
\* loaded for the same id and leaves every other field as it was.
C14_EntityEventFrame ==
    [][\A f \in Handlers :
        /\ (flows[f].op = "idle" /\ flows'[f].op = "entityEvent")
            => /\ loginFacade' = loginFacade
               /\ "loadUser" \in flows'[f].sent
                    <=> NamesActiveUser(loginFacade, flows'[f].data)
               /\ "loadGroupInfo" \in flows'[f].sent
                    <=> NamesActiveGroupInfo(loginFacade, flows'[f].data)
               /\ loginFacade.user = NULL => flows'[f].sent = {}
               /\ flows'[f].sent = {}
                    => flows'[f].pc = "resolved"
               /\ flows'[f].sent \subseteq {"loadUser", "loadGroupInfo"}
        /\ (flows[f].pc = "evUser" /\ flows'[f].pc # "evUser")
            => /\ loginFacade' = [loginFacade EXCEPT !.user = loginFacade'.user]
               /\ IF flows'[f].pc = "resolved"
                  THEN loginFacade'.user.id = flows[f].userId
                  ELSE loginFacade' = loginFacade
        /\ (flows[f].pc = "evInfo" /\ flows'[f].pc # "evInfo")
            => /\ loginFacade' =
                    [loginFacade EXCEPT !.userGroupInfo = loginFacade'.userGroupInfo]
               /\ IF flows'[f].pc = "resolved"
                  THEN loginFacade'.userGroupInfo.id = flows[f].infoId
                  ELSE loginFacade' = loginFacade]_vars

\* C14 witness: a push update has replaced the cached user by the second
\* revision, with the token and the key cache of the session in place.
C14_Witness ==
    \E f \in Handlers :
        /\ flows[f].op = "entityEvent"
        /\ flows[f].pc = "resolved"
        /\ "loadUser" \in flows[f].sent
        /\ isLoggedIn(loginFacade)
        /\ loginFacade.user.rev = "v2"
        /\ loginFacade.accessToken = TokenOf(loginFacade.user.id)
        /\ getUserGroupKey(loginFacade) = GroupKeyOf(UserGroupOf(loginFacade.user.id))

\* the token is not base64url, or decodes to fewer than
\* GENERATED_ID_BYTES_LENGTH bytes
Undecodable(accessToken) ==
    ~accessToken.b64 \/ Len(accessToken.bytes) < GENERATED_ID_BYTES_LENGTH

\* C15: for a token that is not base64url or decodes to fewer than
\* GENERATED_ID_BYTES_LENGTH bytes no session address is derived: the
\* operation that was given the token has thrown, and neither a DELETE, nor
\* a GET of the session record, nor a second-factor notification was made
\* for it.
C15_UndecodableTokenFails ==
    \A f \in Calls :
        (/\ flows[f].op \in {"deleteSession", "resumeSession", "createSession"}
         /\ flows[f].accessToken # NULL
         /\ Undecodable(flows[f].accessToken))
        => /\ IsThrown(SessionPath(flows[f].accessToken))
           /\ flows[f].pc = "rejected"
           /\ flows[f].sent = {}
           /\ ~flows[f].notified

\* the key of the user group of user u is in the cache
UserGroupKeyCached(this, u) == this.groupKeys[UserGroupOf(u)] # NULL

\* C16: _initSession goes through its steps in the one order: a step sends
\* only its own request and only when the answer of the step before has been
\* handled with success; the user-group key of the loaded user is in the
\* cache when the group info is asked for and when the event stream is
\* connected; the receive-info notification is sent only when the loaded
\* user is not an external account; the connect is the last step.
C16_InitSessionStepOrder ==
    [][/\ \A f \in Calls :
            /\ (flows[f].pc # "initUser" /\ flows'[f].pc = "initUser")
                => /\ flows[f].pc \notin InitPcs
                   /\ flows'[f].sent = flows[f].sent \cup {"loadUser"}
            /\ (flows[f].pc # "initInfo" /\ flows'[f].pc = "initInfo")
                => /\ flows[f].pc = "initUser"
                   /\ flows'[f].sent = flows[f].sent \cup {"loadGroupInfo"}
                   /\ loginFacade'.user # NULL
                   /\ loginFacade'.user.id = flows[f].userId
                   /\ UserGroupKeyCached(loginFacade', flows[f].userId)
            /\ (flows[f].pc # "initEntropy" /\ flows'[f].pc = "initEntropy")
                => /\ flows[f].pc = "initInfo"
                   /\ flows'[f].sent = flows[f].sent \cup {"loadRoot"}
                   /\ loginFacade'.userGroupInfo # NULL
            /\ (flows[f].pc # "initNotify" /\ flows'[f].pc = "initNotify")
                => /\ flows[f].pc = "initEntropy"
                   /\ flows'[f].sent = flows[f].sent \cup {"receiveInfo"}
                   /\ AccountTypeOf(flows[f].userId) # "EXTERNAL"
            /\ (flows[f].pc \in InitPcs /\ flows'[f].pc = "resolved")
                => /\ flows[f].pc \in {"initNotify", "initEntropy"}
                   /\ {"loadUser", "loadGroupInfo", "loadRoot"} \subseteq flows'[f].sent
                   /\ "receiveInfo" \in flows'[f].sent
                        => AccountTypeOf(flows[f].userId) # "EXTERNAL"
                   /\ loginFacade'.eventBusClient = "connected"
                   /\ UserGroupKeyCached(loginFacade', flows[f].userId)
            /\ (flows[f].pc \in InitPcs /\ flows'[f].pc \notin InitPcs)
                => flows'[f].pc \in {"resolved", "rejected"}
       /\ (/\ loginFacade'.eventBusClient # loginFacade.eventBusClient
           /\ loginFacade'.eventBusClient = "connected")
            => \E f \in Calls : flows[f].pc \in InitPcs /\ flows'[f].pc = "resolved"]_vars

\* C17: a logout called while no user is cached resolves at once, sends no
\* request, and leaves every field of the facade, the event bus client
\* included, as it was.
C17_LogoutWithoutLoginIsNoOp ==
    [][\A f \in Calls :
        (/\ flows[f].op = "idle"
         /\ flows'[f].op = "logout"
         /\ loginFacade.user = NULL)
        => /\ flows'[f].pc = "resolved"
           /\ flows'[f].sent = {}
           /\ loginFacade' = loginFacade]_vars

\* C17 witness: a logout has resolved without a request while a session
\* establishment that has set the access token and the persistent flag is
\* waiting for its user.
C17_Witness ==
    \E f \in Calls, g \in Calls :
        /\ flows[f].op = "logout"
        /\ flows[f].pc = "resolved"
        /\ flows[f].sent = {}
        /\ flows[g].op = "createSession"
        /\ flows[g].pc = "initUser"
        /\ loginFacade.user = NULL
        /\ loginFacade.accessToken = flows[g].accessToken
        /\ loginFacade.accessToken \in ServerTokens
        /\ loginFacade.persistentSession

\* C18: when the persisted entropy cannot be decrypted, the step of
\* _initSession that finds it out throws nothing of it and resets nothing:
\* it sends the receive-info notification with the facade as it was, or, for
\* an external user, goes on to the connect at once; and a flow that resolves
\* after it ends logged in with the event stream connected.
C18_UndecryptableEntropyIgnored ==
    [][\A f \in Calls :
        /\ (flows[f].pc = "initEntropy" /\ flows'[f].entropy = "ignored")
            => /\ flows'[f].err # "CryptoError"
               /\ \/ /\ flows'[f].pc = "initNotify"
                     /\ "receiveInfo" \in flows'[f].sent
                     /\ loginFacade' = loginFacade
                  \/ /\ flows'[f].pc = "resolved"
                     /\ isExternalUserLoggedIn(loginFacade)
                  \/ /\ flows'[f].pc = "rejected"
                     /\ isExternalUserLoggedIn(loginFacade)
                     /\ flows'[f].err = "Error: connect"
        /\ (/\ flows[f].pc \in InitPcs
            /\ flows'[f].pc = "resolved"
            /\ flows'[f].entropy = "ignored")
            => /\ isLoggedIn(loginFacade')
               /\ loginFacade'.eventBusClient = "connected"]_vars

\* C18 witness: a createSession whose entropy payload could not be decrypted
\* has sent the receive-info notification and resolved logged in.
C18_Witness ==
    \E f \in Calls :
        /\ flows[f].op = "createSession"
        /\ flows[f].pc = "resolved"
        /\ flows[f].entropy = "ignored"
        /\ "receiveInfo" \in flows[f].sent
        /\ isLoggedIn(loginFacade)
        /\ loginFacade.eventBusClient = "connected"

\* C19: a status poll answered "pending" leaves createSession polling, with
\* nothing resolved and nothing written; a failed poll rejects it; the
\* answer "approved" takes it into _initSession, once: the wait is entered
\* only from the create-session answer.  With a server that approves in the
\* end, every wait ends: createSession enters _initSession, or a poll failed.
C19_SecondFactorWaitResolvesOnApproval ==
    /\ [][\A f \in Calls :
            /\ (flows[f].pc = "poll" /\ flows'[f] # flows[f])
                => \/ /\ flows'[f].lastPoll = "pending"
                      /\ flows'[f].pc = "poll"
                      /\ ~flows'[f].initCalled
                      /\ loginFacade' = loginFacade
                   \/ /\ flows'[f].lastPoll = "approved"
                      /\ flows[f].lastPoll # "approved"
                      /\ flows'[f].initCalled
                   \/ /\ flows'[f].lastPoll = flows[f].lastPoll
                      /\ flows'[f].pc = "rejected"
                      /\ flows'[f].err \in LoadErrors
                      /\ ~flows'[f].initCalled
                      /\ loginFacade' = loginFacade
            /\ (flows[f].pc # "poll" /\ flows'[f].pc = "poll")
                => flows[f].pc = "create" /\ flows'[f].lastPoll = "none"]_vars
    /\ \A f \in Calls :
            (flows[f].pc = "poll")
                ~> (flows[f].initCalled \/ flows[f].pc = "rejected")

\* C19 witness: after a poll that reported "pending" the wait goes on.
C19_Witness ==
    \E f \in Calls :
        /\ flows[f].op = "createSession"
        /\ flows[f].pc = "poll"
        /\ flows[f].lastPoll = "pending"
        /\ flows[f].notified
        /\ ~flows[f].initCalled

\* C20: when a logout that began logged in has resolved, no user is logged
\* in and no user or group info is cached for as long as no new session
\* establishment is made, whatever load of a push update was pending.
C20_NoResurrectionAfterLogout ==
    \A f \in Calls :
        (/\ flows[f].op = "logout"
         /\ flows[f].pc = "resolved"
         /\ flows[f].startUser # "")
        => /\ ~isLoggedIn(loginFacade)
           /\ loginFacade.user = NULL
           /\ loginFacade.userGroupInfo = NULL

\* C21: in every reachable state, a cached user comes with an access token
\* and with the key of its user group in the cache; and without a cached
\* user the key cache is empty and the event stream is not connected.
C21_StateConsistent ==
    /\ loginFacade.user # NULL
        => /\ loginFacade.accessToken # NULL
           /\ UserGroupKeyCached(loginFacade, loginFacade.user.id)
           /\ getUserGroupKey(loginFacade) = GroupKeyOf(getUserGroupId(loginFacade))
    /\ loginFacade.user = NULL
        => /\ loginFacade.groupKeys = NoKeys
           /\ ~StreamConnected(loginFacade)

\* C22: when createSession or createExternalSession resolves, credentials
\* are returned exactly if returnCredentials was true, and then the session
\* is marked persistent, so that a logout (which deletes the session exactly
\* if the flag is false) leaves the session of those credentials alone.
C22_ReturnedCredentialsArePersistent ==
    [][\A f \in Calls :
        (/\ flows'[f].op \in {"createSession", "createExternalSession"}
         /\ flows[f].pc # "resolved"
         /\ flows'[f].pc = "resolved")
        => /\ flows'[f].result.credentials # NULL <=> flows'[f].returnCredentials
           /\ flows'[f].returnCredentials => loginFacade'.persistentSession]_vars

\* two session establishments, both started logged out, have entered
\* _initSession for two different users
TwoUsersOverlap ==
    \E f \in Calls, g \in Calls :
        /\ flows[f].op \in SessionOps /\ flows[g].op \in SessionOps
        /\ flows[f].initCalled /\ flows[g].initCalled
        /\ flows[f].startUser = "" /\ flows[g].startUser = ""
        /\ flows[f].userId # flows[g].userId

\* C23: when two session establishments for two different users overlap,
\* the access token, the cached user, the cached group info and the keys in
\* the cache belong to one and the same user, and at most one of the two
\* flows has resolved.
C23_OverlappingLoginsDoNotMix ==
    TwoUsersOverlap
    => /\ loginFacade.user # NULL
            => /\ loginFacade.accessToken # NULL
                    => loginFacade.accessToken = TokenOf(loginFacade.user.id)
               /\ loginFacade.userGroupInfo # NULL
                    => loginFacade.userGroupInfo.id = GroupInfoIdOf(loginFacade.user.id)
               /\ \A u \in UserIds :
                    UserGroupKeyCached(loginFacade, u) => u = loginFacade.user.id
       /\ \A f \in Calls, g \in Calls :
            (/\ f # g
             /\ flows[f].op \in SessionOps /\ flows[g].op \in SessionOps
             /\ flows[f].userId # flows[g].userId)
            => ~(flows[f].pc = "resolved" /\ flows[g].pc = "resolved")

====
